---- MODULE Spec2Model ----
(***************************************************************************)
(* Model of the server-side OAuth/PKCE token lifecycle manager             *)
(* (createMsalProvider), its cache adapter and partition manager, the      *)
(* session bag it works on, and the handlers of auth.utils.server that     *)
(* call it.                                                                *)
(*                                                                         *)
(* Every action is the completion of one awaited I/O followed by the       *)
(* synchronous code that runs up to the next awaited I/O: Node runs that   *)
(* code without interleaving, and other requests interleave only at the    *)
(* awaits.  A cache command reads its key when it is issued and touches    *)
(* the store when it completes.                                            *)
(***************************************************************************)
EXTENDS Integers, Sequences, FiniteSets, TLC

\* ------------------------------------------------------------------ bounds
\* codes issued and not yet redeemed
MaxCodes == 2
\* metadata resolutions
MaxResolutions == 2
\* minutes of clock
MaxTime == 2

\* ------------------------------------------------------- values and inputs
Undefined == "undefined"
EMPTY_STRING == <<>>

Sessions == {"s1", "s2"}
Procs == {"p1", "p2"}

\* home-account ids are strings, modelled as sequences of characters so that
\* String.includes is a real substring test; <<1>> is a substring of <<1, 2>>
Accounts == {<<1>>, <<1, 2>>}

\* random draws of generatePKCEChallenge / generateSecureRandomString: draw k
\* yields the verifier <<"v", k>> and the state <<"n", k>>
Draws == {1, 2}
Verifier(k) == <<"v", k>>
Nonce(k) == <<"n", k>>
NoString == <<"undefined">>

ReturnUrlArgs == {Undefined, "", "/dashboard"}
ErrorParams == {Undefined, "", "access_denied"}
DescriptionParams == {Undefined, "User cancelled"}
StateParams == {NoString} \cup {Nonce(k) : k \in Draws}

VARIABLES session, store, codes, urls, now, proc, io, issued, meta

vars == <<session, store, codes, urls, now, proc, io, issued, meta>>

\* ---------------------------------------------------------- session bag
\* createSession: the session is an object; a key is present when it is in
\* the object
has(sess, key) == key \in DOMAIN sess

set(sess, key, value) ==
    [k \in DOMAIN sess \cup {key} |-> IF k = key THEN value ELSE sess[k]]

\* an unset that removes nothing
unset_Kept(sess, key) == sess

unset(sess, key) == [k \in DOMAIN sess \ {key} |-> sess[k]]

\* ------------------------------------------------------------ PKCE utility
\* base64url(sha256(verifier)): an injective function of the verifier
generateCodeChallenge(verifier) == <<"sha256", verifier>>

\* ------------------------------------------------------- partition manager
\* a key that falls back on the signed-in user
getKey_User(sess) ==
    IF has(sess, "homeAccountId") THEN sess["homeAccountId"]
    ELSE IF has(sess, "user") THEN sess["user"].uniqueId
    ELSE EMPTY_STRING

\* session.find("homeAccountId") || ""
getKey(sess) ==
    IF has(sess, "homeAccountId") THEN sess["homeAccountId"] ELSE EMPTY_STRING

extractKey(accountEntity) == accountEntity

\* ----------------------------------------------------------- cache adapter
\* a get that lets the backend's failure through as a stale hit
CacheGet_Unguarded(key, backendOk) ==
    IF key = EMPTY_STRING THEN [value |-> <<>>, store |-> FALSE]
    ELSE [value |-> store[key], store |-> TRUE]

\* createMsalCacheClient.get: the empty key is answered without touching the
\* backing store; a backend error or a missing entry yields the empty string
CacheGet(key, backendOk) ==
    IF key = EMPTY_STRING THEN [value |-> <<>>, store |-> FALSE]
    ELSE IF backendOk THEN [value |-> store[key], store |-> TRUE]
    ELSE [value |-> <<>>, store |-> TRUE]

\* createMsalCacheClient.set: the store after the command
CacheSet(key, value, backendOk) ==
    IF key = EMPTY_STRING \/ ~backendOk THEN store
    ELSE [store EXCEPT ![key] = value]

\* createMsalCacheClient.set: what the command answers, Redis's reply or the
\* empty string
CacheSetReply(key, backendOk) ==
    IF key = EMPTY_STRING \/ ~backendOk THEN EMPTY_STRING ELSE <<"OK">>

\* ------------------------------------------------ MSAL distributed cache
\* the token cache of one client instance is the list of cached accounts,
\* in insertion order, each with its tokens
Range(seq) == {seq[i] : i \in 1..Len(seq)}

saveCacheRecord(kv, account) ==
    IF account \in Range(kv) THEN kv ELSE Append(kv, account)

removeAccount(kv, account) == SelectSeq(kv, LAMBDA a : a # account)

\* DistributedCachePlugin.afterCacheAccess: the key of the first account
\* entity, else the partition manager's key
WriteKey(kv, sess) == IF Len(kv) > 0 THEN extractKey(kv[1]) ELSE getKey(sess)

\* ------------------------------------------------------------ error values
NoError == [name |-> "none", code |-> "none", message |-> <<>>]

\* sanitizeError on an Error instance: code is error.code, else the default
sanitizeError(error) ==
    [message |-> error.message,
     code |-> IF error.code # Undefined THEN error.code ELSE "UNKNOWN_ERROR"]

\* createAuthError ignores defaultCode and defaultMessage
createAuthError(errorInfo, defaultCode, defaultMessage) ==
    [name |-> "AuthError", code |-> errorInfo.code, message |-> errorInfo.message]

\* ---------------------------------------------------------------- requests
NoCode == [challenge |-> <<>>, account |-> <<>>]

NoCallback == [code |-> NoCode, state |-> NoString, error |-> Undefined,
               description |-> Undefined]

\* session user: apiToken and apiTokenExpiresAt are optional
NoToken == [exp |-> -1, role |-> [kind |-> "none", value |-> <<>>], signed |-> FALSE]
NoExpiry == -1
NoUser == [uniqueId |-> EMPTY_STRING, roles |-> <<>>, apiToken |-> NoToken,
           apiTokenExpiresAt |-> NoExpiry]

\* no enrich-token response
NoResponse == [ok |-> TRUE, token |-> NoToken]

NoResult == [status |-> "none", url |-> <<>>, account |-> EMPTY_STRING,
             redirectTo |-> Undefined, error |-> NoError, user |-> NoUser]

\* a request slot: the operation it runs, where it is, and its local variables
Idle == [op |-> "none", pc |-> "done", s |-> "s1", caller |-> "direct",
         arg |-> Undefined, code |-> NoCode, cbState |-> NoString,
         codeVerifier |-> NoString, returnUrl |-> Undefined, state |-> NoString,
         key |-> EMPTY_STRING, kv |-> <<>>, account |-> EMPTY_STRING,
         returnPath |-> <<>>, user |-> NoUser]

\* what the last step did: which step it was (at) and whose, whether it
\* entered a provider operation (ev), the callback it was given, the cache
\* command it completed (its key, whether it reached the backing store, the
\* value it answered), the provider call it made, and the provider operation (op, result) and
\* the handler (handler, outcome) that ended with it; for the enrich-token call
\* account is the bearer token and response the answer
NoIO == [at |-> "none", p |-> "none", s |-> "none", ev |-> "none",
         cb |-> NoCallback,
         returnPath |-> <<>>,
         cache |-> "none", key |-> EMPTY_STRING, backendOk |-> TRUE,
         store |-> FALSE, value |-> <<>>,
         call |-> "none", account |-> EMPTY_STRING,
         response |-> NoResponse,
         op |-> "none", result |-> NoResult,
         handler |-> "none", outcome |-> NoResult]

Failed(err) == [NoResult EXCEPT !.status = "error", !.error = err]

Redirect(to) == [NoResult EXCEPT !.status = "redirect", !.redirectTo = to]

\* history: what the last generateAuthorizationUrl that returned a URL for a
\* session was given and drew
NoIssue == [arg |-> Undefined, codeVerifier |-> NoString, state |-> NoString,
            issued |-> FALSE]

\* ------------------------------------------------------- metadata values
ClientIds == {"c1", "c2"}
TenantIds == {"t1", "t2"}

\* the provider's documents change over time: each fetch answers one of
\* Versions
Versions == {1, 2}

NoDoc == [kind |-> "none", tenant |-> "none", version |-> 0]

\* a JavaScript value of getMetadata: null, a parsed document, or a string
\* holding a document as JSON
Null == [type |-> "null", doc |-> NoDoc]

Parsed(doc) == [type |-> "object", doc |-> doc]

\* a value stored as it is
JSONstringify_Raw(value) == value

\* JSON.stringify of a parsed document
JSONstringify(value) == [type |-> "string", doc |-> value.doc]

\* `${clientId}.${tenantId}.discovery-metadata` and
\* `${clientId}.${tenantId}.authority-metadata`
MetaKey(clientId, tenantId, name) == <<clientId, tenantId, name>>

MetaKeys ==
    {MetaKey(c, t, n) : c \in ClientIds, t \in TenantIds,
                        n \in {"discovery-metadata", "authority-metadata"}}

\* createMsalProvider calls that may be in progress at the same time
Resolvers == {"r1", "r2"}

\* the metadata resolver: the metadata entries of the cache, for each call
\* the resolution in progress (pc, clientId, tenantId, the two values it
\* holds, what it has done so far) and the resolutions that have ended, in
\* order
NoRun == [clientId |-> "none", tenantId |-> "none", cold |-> FALSE,
          cacheFailed |-> FALSE, discoveryFetches |-> 0, oidcFetches |-> 0,
          status |-> "none", error |-> NoError,
          cloudDiscoveryMetadata |-> Null, authorityMetadata |-> Null]

NoResolution == [pc |-> "idle", cloudDiscoveryMetadata |-> Null,
                 authorityMetadata |-> Null, run |-> NoRun]

NoMeta == [store |-> [k \in MetaKeys |-> Null],
           res |-> [r \in Resolvers |-> NoResolution], runs |-> <<>>]

\* ------------------------------------------------------------------- Init
Init ==
    /\ session = [s \in Sessions |-> <<>>]
    /\ store = [k \in Accounts |-> <<>>]
    /\ codes = {}
    /\ urls = {}
    /\ now = 0
    /\ proc = [p \in Procs |-> Idle]
    /\ io = NoIO
    /\ issued = [s \in Sessions |-> NoIssue]
    /\ meta = NoMeta

\* ------------------------------------------------ generateAuthorizationUrl
\* a request built without the state
AuthCodeUrlParameters_NoState(codeChallenge, state) ==
    [state |-> NoString, code_challenge |-> codeChallenge,
     code_challenge_method |-> "S256"]

\* the request handed to getAuthCodeUrl, as the query string of the URL
AuthCodeUrlParameters(codeChallenge, state) ==
    [state |-> state, code_challenge |-> codeChallenge,
     code_challenge_method |-> "S256"]

\* writes that keep a returnUrl the session already holds
StorePkce_KeepReturnUrl(sess, verifier, returnUrl, state) ==
    set(set(set(sess, "codeVerifier", verifier), "returnUrl",
            IF has(sess, "returnUrl") THEN sess["returnUrl"] ELSE returnUrl),
        "state", state)

\* the three session writes
StorePkce(sess, verifier, returnUrl, state) ==
    set(set(set(sess, "codeVerifier", verifier), "returnUrl", returnUrl),
        "state", state)

\* PKCE pair and state drawn, getAuthCodeUrl issued
GenStart(p, s, r, k) ==
    /\ proc[p].pc = "done"
    /\ proc' = [proc EXCEPT ![p] =
          [Idle EXCEPT !.op = "generateAuthorizationUrl", !.pc = "gen_url",
                       !.s = s, !.arg = r,
                       !.returnUrl = IF r = Undefined THEN "/" ELSE r,
                       !.codeVerifier = Verifier(k), !.state = Nonce(k)]]
    /\ io' = [NoIO EXCEPT !.at = "GenStart", !.p = p, !.s = s, !.ev = "start"]
    /\ UNCHANGED <<session, store, codes, urls, now, issued, meta>>

\* getAuthCodeUrl resolves or rejects; on success the three session writes
\* run without an await between them; initiateAuthFlow then redirects to the
\* URL, and lets an error escape
GenStore(p, ok) ==
    /\ proc[p].pc = "gen_url"
    /\ LET me == proc[p]
           url == AuthCodeUrlParameters(generateCodeChallenge(me.codeVerifier),
                                        me.state)
           res == IF ok THEN [NoResult EXCEPT !.status = "ok", !.url = url]
                  ELSE Failed([name |-> "ClientAuthError",
                               code |-> "url_construction_error",
                               message |-> <<"getAuthCodeUrl">>])
       IN /\ IF ok
             THEN /\ session' = [session EXCEPT ![me.s] =
                        StorePkce(@, me.codeVerifier, me.returnUrl, me.state)]
                  /\ issued' = [issued EXCEPT ![me.s] =
                        [arg |-> me.arg, codeVerifier |-> me.codeVerifier,
                         state |-> me.state, issued |-> TRUE]]
                  /\ urls' = urls \cup {url}
             ELSE UNCHANGED <<session, issued, urls>>
          /\ proc' = [proc EXCEPT ![p] = Idle]
          /\ io' = [NoIO EXCEPT !.at = "GenStore", !.p = p, !.s = me.s, !.call = "getAuthCodeUrl",
                       !.op = "generateAuthorizationUrl", !.result = res,
                       !.handler = IF me.caller = "initiateAuthFlow"
                                   THEN me.caller ELSE "none",
                       !.outcome = IF me.caller # "initiateAuthFlow" THEN NoResult
                                   ELSE IF ok THEN [res EXCEPT !.status = "redirect"]
                                   ELSE res]
    /\ UNCHANGED <<store, codes, now, meta>>

\* ------------------------------------------------------- identity provider
\* the user signs in with account a at the authorize endpoint reached through
\* a URL the application returned; the provider issues a code bound to the
\* URL's code challenge; codes is the set of codes issued and not yet redeemed
Authorize(url, a) ==
    /\ Cardinality(codes) < MaxCodes
    /\ url \in urls
    /\ [challenge |-> url.code_challenge, account |-> a] \notin codes
    /\ codes' = codes \cup {[challenge |-> url.code_challenge, account |-> a]}
    /\ io' = NoIO
    /\ UNCHANGED <<session, store, urls, now, proc, issued, meta>>

\* the token endpoint accepts an outstanding code with the verifier of its
\* challenge
TokenEndpointAccepts(code, codeVerifier) ==
    /\ code \in codes
    /\ code.challenge = generateCodeChallenge(codeVerifier)

\* --------------------------------------------------- exchangeCodeForTokens
Truthy(x) == x # Undefined /\ x # ""

\* a provider error reported under a fixed code and message
ProviderError_Generic(error, errorDescription) ==
    [name |-> "AuthError", code |-> "CALLBACK_ERROR",
     message |-> <<"Authentication failed: ", "CALLBACK_ERROR">>]

\* the AuthError thrown when the callback reports a provider error
ProviderError(error, errorDescription) ==
    [name |-> "AuthError", code |-> error,
     message |-> <<"Authentication failed: ",
                   IF Truthy(errorDescription) THEN errorDescription ELSE error>>]

\* session.get of a key that is not in the session
KeyNotFound(key) ==
    [name |-> "Error", code |-> Undefined,
     message |-> <<"Key not found in session", key>>]

\* a removal of the verifier alone
ClearPkce_VerifierOnly(sess) == unset(sess, "codeVerifier")

\* session.unset of codeVerifier, returnUrl and state
ClearPkce(sess) == unset(unset(unset(sess, "codeVerifier"), "returnUrl"), "state")

\* redirectTo without the default
RedirectTo_Raw(returnUrl) == returnUrl

\* redirectTo: returnUrl || "/"
RedirectTo(returnUrl) == IF returnUrl = "" THEN "/" ELSE returnUrl

\* processAuthCallback: the user record built from the token result
UserOf(account) == [NoUser EXCEPT !.uniqueId = account]

\* the end of an exchangeCodeForTokens call, for a direct caller and for
\* processAuthCallback, which lets an error escape and otherwise redirects
ExchangeEnded(at, p, s, caller, res) ==
    [NoIO EXCEPT !.at = at, !.p = p, !.s = s,
        !.op = "exchangeCodeForTokens", !.result = res,
        !.handler = IF caller = "processAuthCallback" THEN caller ELSE "none",
        !.outcome = IF caller # "processAuthCallback" THEN NoResult
                    ELSE IF res.status = "ok" THEN Redirect(res.redirectTo)
                    ELSE res]

\* the synchronous head: the error check, the reads of the three PKCE
\* fields, their removal, and the issue of acquireTokenByCode
ExchangeStart(p, s, caller, cb) ==
    /\ proc[p].pc = "done"
    /\ LET sess == session[s]
           thrown == IF Truthy(cb.error)
                     THEN ProviderError(cb.error, cb.description)
                     ELSE IF ~has(sess, "codeVerifier")
                     THEN KeyNotFound("codeVerifier")
                     ELSE IF ~has(sess, "state") THEN KeyNotFound("state")
                     ELSE NoError
       IN IF thrown # NoError
          THEN /\ proc' = [proc EXCEPT ![p] = Idle]
               /\ session' = session
               /\ io' = [ExchangeEnded("ExchangeStart", p, s, caller, Failed(thrown)) EXCEPT
                            !.ev = "start", !.cb = cb]
          ELSE /\ proc' = [proc EXCEPT ![p] =
                     [Idle EXCEPT !.op = "exchangeCodeForTokens",
                                  !.pc = "exch_token", !.s = s,
                                  !.caller = caller,
                                  !.code = cb.code, !.cbState = cb.state,
                                  !.codeVerifier = sess["codeVerifier"],
                                  !.returnUrl = IF has(sess, "returnUrl")
                                                THEN sess["returnUrl"] ELSE "/",
                                  !.state = sess["state"]]]
               /\ session' = [session EXCEPT ![s] = ClearPkce(@)]
               /\ io' = [NoIO EXCEPT !.at = "ExchangeStart", !.p = p, !.s = s, !.ev = "start", !.cb = cb]
    /\ UNCHANGED <<store, codes, urls, now, issued, meta>>

\* acquireTokenByCode, the token request: the provider redeems the code or
\* rejects it, or the request fails; on success the plugin issues the read
\* of the partition (beforeCacheAccess)
ExchangeToken(p, networkOk) ==
    /\ proc[p].pc = "exch_token"
    /\ LET me == proc[p]
           accepted == networkOk /\ TokenEndpointAccepts(me.code, me.codeVerifier)
           error == IF networkOk
                    THEN [message |-> <<"invalid_grant">>, code |-> "invalid_grant"]
                    ELSE [message |-> <<"network_error">>, code |-> "network_error"]
       IN IF accepted
          THEN /\ codes' = codes \ {me.code}
               /\ proc' = [proc EXCEPT ![p] =
                     [me EXCEPT !.pc = "exch_read",
                                !.account = me.code.account,
                                !.key = getKey(session[me.s])]]
               /\ io' = [NoIO EXCEPT !.at = "ExchangeToken", !.p = p, !.s = me.s,
                            !.call = "acquireTokenByCode"]
          ELSE /\ codes' = codes
               /\ proc' = [proc EXCEPT ![p] = Idle]
               /\ io' = [ExchangeEnded("ExchangeToken", p, me.s, me.caller,
                            Failed(createAuthError(sanitizeError(error),
                               "CALLBACK_ERROR", <<"Authentication failed">>)))
                         EXCEPT !.call = "acquireTokenByCode"]
    /\ UNCHANGED <<session, store, urls, now, issued, meta>>

\* the partition read completes, the response is saved in the instance's
\* cache, and the plugin issues the write (afterCacheAccess)
ExchangeRead(p, backendOk) ==
    /\ proc[p].pc = "exch_read"
    /\ LET me == proc[p]
           got == CacheGet(me.key, backendOk)
           kv == saveCacheRecord(got.value, me.account)
       IN /\ proc' = [proc EXCEPT ![p] =
                [me EXCEPT !.pc = "exch_write", !.kv = kv,
                           !.key = WriteKey(kv, session[me.s])]]
          /\ io' = [NoIO EXCEPT !.at = "ExchangeRead", !.p = p, !.s = me.s, !.cache = "get", !.backendOk = backendOk,
                       !.key = me.key, !.store = got.store,
                       !.value = got.value,
                       !.account = me.account]
    /\ UNCHANGED <<session, store, codes, urls, now, issued, meta>>

\* the partition write completes and the .then handler stores homeAccountId;
\* processAuthCallback then stores the user
ExchangeWrite(p, backendOk) ==
    /\ proc[p].pc = "exch_write"
    /\ LET me == proc[p]
           res == [NoResult EXCEPT !.status = "ok", !.account = me.account,
                                   !.redirectTo = RedirectTo(me.returnUrl)]
           withAccount == set(session[me.s], "homeAccountId", me.account)
       IN /\ store' = CacheSet(me.key, me.kv, backendOk)
          /\ session' = [session EXCEPT ![me.s] =
                IF me.caller = "processAuthCallback"
                THEN set(withAccount, "user", UserOf(me.account))
                ELSE withAccount]
          /\ proc' = [proc EXCEPT ![p] = Idle]
          /\ io' = [ExchangeEnded("ExchangeWrite", p, me.s, me.caller, res) EXCEPT
                       !.cache = "set", !.backendOk = backendOk,
                     !.value = CacheSetReply(me.key, backendOk), !.key = me.key,
                       !.store = (me.key # EMPTY_STRING),
                       !.account = me.account]
    /\ UNCHANGED <<codes, urls, now, issued, meta>>

\* ------------------------------------------------------ refreshAccessToken
\* String.prototype.includes on home-account ids
Includes(hay, needle) ==
    \E i \in 0..(Len(hay) - Len(needle)) :
        \A j \in 1..Len(needle) : hay[i + j] = needle[j]

\* Array.prototype.find: the first element of those passing the test (given
\* by their indexes), else undefined
FirstOf(seq, passing) ==
    IF passing = {} THEN EMPTY_STRING
    ELSE seq[CHOOSE i \in passing : \A j \in passing : i <= j]

\* the exact-match selection
SelectAccount_Exact(accounts, homeAccountId) ==
    IF homeAccountId # EMPTY_STRING
    THEN FirstOf(accounts, {i \in 1..Len(accounts) : accounts[i] = homeAccountId})
    ELSE accounts[1]

\* homeAccountId ? accounts.find(acc => acc.homeAccountId.includes(homeAccountId))
\*               : accounts[0]
SelectAccount(accounts, homeAccountId) ==
    IF homeAccountId # EMPTY_STRING
    THEN FirstOf(accounts, {i \in 1..Len(accounts) :
                               Includes(accounts[i], homeAccountId)})
    ELSE accounts[1]

\* TokenCache.deserialize: an empty snapshot leaves the in-memory cache as it
\* is, any other snapshot replaces it
deserialize(kv, data) == IF data = <<>> THEN kv ELSE data

\* an error in place of the null result
NullResult_Thrown ==
    [NoResult EXCEPT !.status = "error",
        !.error = [name |-> "AuthError", code |-> "TOKEN_REFRESH_ERROR",
                   message |-> <<"No accounts">>]]

\* { authResult: null }
NullResult == [NoResult EXCEPT !.status = "null"]

TokenResult(account) == [NoResult EXCEPT !.status = "ok", !.account = account]

\* a gate that goes on to the backend whatever refreshAccessToken returned
RefreshEnded_Through(p, res, step) ==
    LET me == proc[p]
        gate == me.caller = "ensureUserHasApiAccess"
    IN /\ proc' = [proc EXCEPT ![p] =
             IF gate THEN [me EXCEPT !.pc = "gate_fetch", !.account = res.account]
             ELSE Idle]
       /\ io' = [step EXCEPT !.op = "refreshAccessToken", !.result = res]

\* the end of a refreshAccessToken call: a direct caller gets the result;
\* ensureUserHasApiAccess goes on to the backend with a token result, whose
\* access token it sends as bearer, redirects to login on null, and lets an
\* error escape; initiateAuthFlow redirects to the return URL with a token
\* result, goes on to generateAuthorizationUrl on null, and lets an error
\* escape
RefreshEnded(p, res, step) ==
    LET me == proc[p]
        gate == me.caller = "ensureUserHasApiAccess"
        login == me.caller = "initiateAuthFlow"
        goesOn == \/ gate /\ res.status = "ok"
                  \/ login /\ res.status = "null"
    IN /\ proc' = [proc EXCEPT ![p] =
             IF gate /\ goesOn
             THEN [me EXCEPT !.pc = "gate_fetch", !.account = res.account]
             ELSE IF login /\ goesOn
             THEN [me EXCEPT !.op = "initiateAuthFlow", !.pc = "login_gen"]
             ELSE Idle]
       /\ io' = [step EXCEPT
             !.op = "refreshAccessToken", !.result = res,
             !.handler = IF (gate \/ login) /\ ~goesOn THEN me.caller ELSE "none",
             !.outcome = IF ~(gate \/ login) \/ goesOn THEN NoResult
                         ELSE IF gate /\ res.status = "null"
                         THEN Redirect("/auth/login")
                         ELSE IF login /\ res.status = "ok"
                         THEN Redirect(me.returnUrl)
                         ELSE res]

\* a client instance is created and getAllAccounts issues the partition read
RefreshIssue(at, p, s, caller, user) ==
    /\ proc' = [proc EXCEPT ![p] =
          [Idle EXCEPT !.op = "refreshAccessToken", !.pc = "refresh_accounts",
                       !.s = s, !.caller = caller, !.user = user,
                       !.key = getKey(session[s])]]
    /\ io' = [NoIO EXCEPT !.at = at, !.p = p, !.s = s, !.ev = "start"]

\* initiateAuthFlow: the return URL is read from the request and
\* refreshAccessToken is called
LoginStart(p, s, r) ==
    /\ proc[p].pc = "done"
    /\ proc' = [proc EXCEPT ![p] =
          [Idle EXCEPT !.op = "refreshAccessToken", !.pc = "refresh_accounts",
                       !.s = s, !.caller = "initiateAuthFlow", !.arg = r,
                       !.returnUrl = IF r = Undefined THEN "/" ELSE r,
                       !.key = getKey(session[s])]]
    /\ io' = [NoIO EXCEPT !.at = "LoginStart", !.p = p, !.s = s, !.ev = "start"]
    /\ UNCHANGED <<session, store, codes, urls, now, issued, meta>>

\* initiateAuthFlow after a null refresh: generateAuthorizationUrl draws the
\* PKCE pair and the state and issues getAuthCodeUrl
LoginGen(p, k) ==
    /\ proc[p].pc = "login_gen"
    /\ proc' = [proc EXCEPT ![p] =
          [Idle EXCEPT !.op = "generateAuthorizationUrl", !.pc = "gen_url",
                       !.s = proc[p].s, !.caller = "initiateAuthFlow",
                       !.arg = proc[p].returnUrl,
                       !.returnUrl = proc[p].returnUrl,
                       !.codeVerifier = Verifier(k), !.state = Nonce(k)]]
    /\ io' = [NoIO EXCEPT !.at = "LoginGen", !.p = p, !.s = proc[p].s]
    /\ UNCHANGED <<session, store, codes, urls, now, issued, meta>>

RefreshStart(p, s) ==
    /\ proc[p].pc = "done"
    /\ RefreshIssue("RefreshStart", p, s, "direct", NoUser)
    /\ UNCHANGED <<session, store, codes, urls, now, issued, meta>>

\* getAllAccounts resolves; the account is selected and acquireTokenSilent
\* issues its own partition read
RefreshAccounts(p, backendOk) ==
    /\ proc[p].pc = "refresh_accounts"
    /\ LET me == proc[p]
           got == CacheGet(me.key, backendOk)
           accounts == got.value
           homeAccountId == getKey(session[me.s])
           account == IF Len(accounts) = 0 THEN EMPTY_STRING
                      ELSE SelectAccount(accounts, homeAccountId)
           step == [NoIO EXCEPT !.at = "RefreshAccounts", !.p = p, !.s = me.s, !.cache = "get", !.backendOk = backendOk,
                       !.key = me.key, !.store = got.store,
                       !.value = got.value]
       IN IF account = EMPTY_STRING
          THEN RefreshEnded(p, NullResult, step)
          ELSE /\ proc' = [proc EXCEPT ![p] =
                     [me EXCEPT !.pc = "refresh_silent", !.kv = accounts,
                                !.account = account,
                                !.key = getKey(session[me.s])]]
               /\ io' = [step EXCEPT !.call = "acquireTokenSilent",
                                     !.account = account]
    /\ UNCHANGED <<session, store, codes, urls, now, issued, meta>>

\* the read of acquireTokenSilent completes; the cached token is returned,
\* or it is renewed at the token endpoint and the write is issued, or the
\* acquisition fails
RefreshSilent(p, backendOk, outcome) ==
    /\ proc[p].pc = "refresh_silent"
    /\ LET me == proc[p]
           got == CacheGet(me.key, backendOk)
           kv == deserialize(me.kv, got.value)
           step == [NoIO EXCEPT !.at = "RefreshSilent", !.p = p, !.s = me.s, !.cache = "get", !.backendOk = backendOk,
                       !.key = me.key, !.store = got.store,
                       !.value = got.value,
                       !.account = me.account]
           error == IF me.account \notin Range(kv)
                    THEN [message |-> <<"no_tokens_found">>,
                          code |-> "no_tokens_found"]
                    ELSE [message |-> <<"interaction_required">>,
                          code |-> "interaction_required"]
       IN IF me.account \notin Range(kv) \/ outcome = "failed"
          THEN RefreshEnded(p,
                  Failed(createAuthError(sanitizeError(error),
                     "TOKEN_REFRESH_ERROR", <<"Authentication expired">>)),
                  step)
          ELSE IF outcome = "cached"
          THEN RefreshEnded(p, TokenResult(me.account), step)
          ELSE /\ proc' = [proc EXCEPT ![p] =
                     [me EXCEPT !.pc = "refresh_write", !.kv = kv,
                                !.key = WriteKey(kv, session[me.s])]]
               /\ io' = step
    /\ UNCHANGED <<session, store, codes, urls, now, issued, meta>>

\* the write of the renewed tokens completes
RefreshWrite(p, backendOk) ==
    /\ proc[p].pc = "refresh_write"
    /\ LET me == proc[p]
       IN /\ store' = CacheSet(me.key, me.kv, backendOk)
          /\ RefreshEnded(p, TokenResult(me.account),
                [NoIO EXCEPT !.at = "RefreshWrite", !.p = p, !.s = me.s, !.cache = "set", !.backendOk = backendOk,
                     !.value = CacheSetReply(me.key, backendOk),
                     !.key = me.key, !.store = (me.key # EMPTY_STRING),
                     !.account = me.account])
    /\ UNCHANGED <<session, codes, urls, now, issued, meta>>
\* ------------------------------------------------------------------ logout
\* return paths as sequences of tokens, so that includes("://"),
\* startsWith("//") and startsWith("/") are real tests
ReturnPaths == {<<"/">>, <<"home">>, <<"/", "/", "evil">>,
                <<"https", "://", "evil">>}

StartsWith(str, prefix) ==
    /\ Len(str) >= Len(prefix)
    /\ \A i \in 1..Len(prefix) : str[i] = prefix[i]

\* the test for a scheme alone
IsAbsoluteUrl_SchemeOnly(returnPath) == "://" \in Range(returnPath)

\* returnPath.includes("://") || returnPath.startsWith("//")
IsAbsoluteUrl(returnPath) ==
    "://" \in Range(returnPath) \/ StartsWith(returnPath, <<"/", "/">>)

normalizeReturnPath(returnPath) ==
    IF StartsWith(returnPath, <<"/">>) THEN returnPath ELSE <<"/">> \o returnPath

Origin == <<"https", "://", "app">>

\* the Entra ID logout URL, as its query string
LogoutUrl(returnPath) == [post_logout_redirect_uri |-> Origin \o returnPath]

\* a logout whose handler leaves the user in the session
LogoutReturned_KeepUser(p, step) ==
    LET me == proc[p]
        res == [NoResult EXCEPT !.status = "ok", !.url = LogoutUrl(me.returnPath)]
        handled == me.caller = "processUserLogout"
    IN /\ session' = [session EXCEPT ![me.s] = unset(@, "homeAccountId")]
       /\ proc' = [proc EXCEPT ![p] = Idle]
       /\ io' = [step EXCEPT
             !.op = "logout", !.result = res,
             !.handler = IF handled THEN me.caller ELSE "none",
             !.outcome = IF handled
                         THEN [res EXCEPT !.status = "redirect"] ELSE NoResult]

\* a logout that tears the whole session down itself
LogoutReturned_Destroy(p, step) ==
    LET me == proc[p]
        res == [NoResult EXCEPT !.status = "ok", !.url = LogoutUrl(me.returnPath)]
        handled == me.caller = "processUserLogout"
    IN /\ session' = [session EXCEPT ![me.s] = <<>>]
       /\ proc' = [proc EXCEPT ![p] = Idle]
       /\ io' = [step EXCEPT
             !.op = "logout", !.result = res,
             !.handler = IF handled THEN me.caller ELSE "none",
             !.outcome = IF handled
                         THEN [res EXCEPT !.status = "redirect"] ELSE NoResult]

\* the end of a logout call that returns the URL: homeAccountId is unset;
\* processUserLogout then unsets the user and destroys the session
LogoutReturned(p, step) ==
    LET me == proc[p]
        res == [NoResult EXCEPT !.status = "ok", !.url = LogoutUrl(me.returnPath)]
        handled == me.caller = "processUserLogout"
    IN /\ session' = [session EXCEPT ![me.s] =
             IF handled THEN <<>> ELSE unset(@, "homeAccountId")]
       /\ proc' = [proc EXCEPT ![p] = Idle]
       /\ io' = [step EXCEPT
             !.op = "logout", !.result = res,
             !.handler = IF handled THEN me.caller ELSE "none",
             !.outcome = IF handled
                         THEN [res EXCEPT !.status = "redirect"] ELSE NoResult]

\* the synchronous head: validation and normalisation of the return path and
\* the lookup of homeAccountId; getAllAccounts issues the partition read
LogoutStart(p, s, caller, returnPath) ==
    /\ proc[p].pc = "done"
    /\ LET homeAccountId == getKey(session[s])
           error == [message |-> <<"Invalid return URL">>, code |-> Undefined]
           res == Failed(createAuthError(sanitizeError(error),
                            "LOGOUT_ERROR", <<"Failed to sign out user">>))
           step == [NoIO EXCEPT !.at = "LogoutStart", !.p = p, !.s = s,
                       !.ev = "start", !.returnPath = returnPath]
           handled == caller = "processUserLogout"
       IN IF IsAbsoluteUrl(returnPath)
          THEN /\ proc' = [proc EXCEPT ![p] = Idle]
               /\ io' = [step EXCEPT
                     !.op = "logout", !.result = res,
                     !.handler = IF handled THEN caller ELSE "none",
                     !.outcome = IF handled THEN res ELSE NoResult]
               /\ session' = session
          ELSE IF homeAccountId # EMPTY_STRING
          THEN /\ proc' = [proc EXCEPT ![p] =
                     [Idle EXCEPT !.op = "logout", !.pc = "logout_accounts",
                                  !.s = s, !.caller = caller,
                                  !.returnPath = normalizeReturnPath(returnPath),
                                  !.account = homeAccountId,
                                  !.key = homeAccountId]]
               /\ io' = step
               /\ session' = session
          ELSE LET me == [Idle EXCEPT !.s = s, !.caller = caller,
                                !.returnPath = normalizeReturnPath(returnPath)]
                      out == [NoResult EXCEPT !.status = "ok",
                                 !.url = LogoutUrl(me.returnPath)]
                  IN /\ session' = [session EXCEPT ![s] =
                           IF handled THEN <<>> ELSE unset(@, "homeAccountId")]
                     /\ proc' = [proc EXCEPT ![p] = Idle]
                     /\ io' = [step EXCEPT
                           !.op = "logout", !.result = out,
                           !.handler = IF handled THEN caller ELSE "none",
                           !.outcome = IF handled
                                       THEN [out EXCEPT !.status = "redirect"]
                                       ELSE NoResult]
    /\ UNCHANGED <<store, codes, urls, now, issued, meta>>

\* getAllAccounts resolves; if the account is cached, removeAccount issues
\* its own partition read
LogoutAccounts(p, backendOk) ==
    /\ proc[p].pc = "logout_accounts"
    /\ LET me == proc[p]
           got == CacheGet(me.key, backendOk)
           step == [NoIO EXCEPT !.at = "LogoutAccounts", !.p = p, !.s = me.s, !.cache = "get", !.backendOk = backendOk,
                       !.key = me.key, !.store = got.store,
                       !.value = got.value]
       IN IF me.account \in Range(got.value)
          THEN /\ proc' = [proc EXCEPT ![p] =
                     [me EXCEPT !.pc = "logout_remove", !.kv = got.value,
                                !.key = getKey(session[me.s])]]
               /\ io' = [step EXCEPT !.call = "removeAccount",
                                     !.account = me.account]
               /\ session' = session
          ELSE LogoutReturned(p, step)
    /\ UNCHANGED <<store, codes, urls, now, issued, meta>>

\* the read of removeAccount completes, the account is removed from the
\* instance's cache and the plugin issues the write
LogoutRemove(p, backendOk) ==
    /\ proc[p].pc = "logout_remove"
    /\ LET me == proc[p]
           got == CacheGet(me.key, backendOk)
           kv == removeAccount(deserialize(me.kv, got.value), me.account)
       IN /\ proc' = [proc EXCEPT ![p] =
                [me EXCEPT !.pc = "logout_write", !.kv = kv,
                           !.key = WriteKey(kv, session[me.s])]]
          /\ io' = [NoIO EXCEPT !.at = "LogoutRemove", !.p = p, !.s = me.s, !.cache = "get", !.backendOk = backendOk,
                       !.key = me.key, !.store = got.store,
                       !.value = got.value,
                       !.account = me.account]
    /\ UNCHANGED <<session, store, codes, urls, now, issued, meta>>

\* a failed logout that clears the session all the same
LogoutRejected_Cleared(p) ==
    /\ proc[p].pc \in {"logout_accounts", "logout_remove"}
    /\ LET me == proc[p]
           error == [message |-> <<"token_cache_error">>, code |-> Undefined]
           res == Failed(createAuthError(sanitizeError(error),
                            "LOGOUT_ERROR", <<"Failed to sign out user">>))
           handled == me.caller = "processUserLogout"
       IN /\ proc' = [proc EXCEPT ![p] = Idle]
          /\ session' = [session EXCEPT ![me.s] = <<>>]
          /\ io' = [NoIO EXCEPT !.at = "LogoutRejected", !.p = p, !.s = me.s,
                       !.op = "logout", !.result = res,
                       !.handler = IF handled THEN me.caller ELSE "none",
                       !.outcome = IF handled THEN res ELSE NoResult]
    /\ UNCHANGED <<store, codes, urls, now, issued, meta>>

\* getAllAccounts or removeAccount rejects (the partition holds data the
\* library cannot deserialize, or the plugin fails): the catch block turns
\* the error into an AuthError and homeAccountId stays in the session
LogoutRejected(p) ==
    /\ proc[p].pc \in {"logout_accounts", "logout_remove"}
    /\ LET me == proc[p]
           error == [message |-> <<"token_cache_error">>, code |-> Undefined]
           res == Failed(createAuthError(sanitizeError(error),
                            "LOGOUT_ERROR", <<"Failed to sign out user">>))
           handled == me.caller = "processUserLogout"
       IN /\ proc' = [proc EXCEPT ![p] = Idle]
          /\ io' = [NoIO EXCEPT !.at = "LogoutRejected", !.p = p, !.s = me.s,
                       !.call = IF me.pc = "logout_accounts"
                                THEN "getAllAccounts" ELSE "removeAccount",
                       !.account = me.account,
                       !.op = "logout", !.result = res,
                       !.handler = IF handled THEN me.caller ELSE "none",
                       !.outcome = IF handled THEN res ELSE NoResult]
    /\ UNCHANGED <<session, store, codes, urls, now, issued, meta>>

\* the write completes and homeAccountId is unset
LogoutWrite(p, backendOk) ==
    /\ proc[p].pc = "logout_write"
    /\ LET me == proc[p]
       IN /\ store' = CacheSet(me.key, me.kv, backendOk)
          /\ LogoutReturned(p,
                [NoIO EXCEPT !.at = "LogoutWrite", !.p = p, !.s = me.s, !.cache = "set", !.backendOk = backendOk,
                     !.value = CacheSetReply(me.key, backendOk),
                     !.key = me.key, !.store = (me.key # EMPTY_STRING),
                     !.account = me.account])
    /\ UNCHANGED <<codes, urls, now, issued, meta>>
\* -------------------------------------------------- ensureUserHasApiAccess
\* the clock counts minutes; Date.now() is in milliseconds and the exp claim
\* of a JWT in seconds
DateNow == now * 60000

FiveMinutes == 5 * 60 * 1000

\* a test for a missing token alone
NeedsApiToken_NoWindow(user) == user.apiToken = NoToken

\* !user.apiToken ||
\* (user.apiToken && user.apiTokenExpiresAt &&
\*  user.apiTokenExpiresAt - Date.now() < 5 * 60 * 1000)
NeedsApiToken(user) ==
    \/ user.apiToken = NoToken
    \/ /\ user.apiTokenExpiresAt # NoExpiry
       /\ user.apiTokenExpiresAt # 0
       /\ user.apiTokenExpiresAt - DateNow < FiveMinutes

\* a verification of the signature alone
jwtVerify_SignatureOnly(token) == token.signed

\* a token without an exp claim
NoExp == -1

\* jwtVerify: the signature verifies and the exp claim, when the token has
\* one, is in the future
jwtVerify(token) ==
    /\ token.signed
    /\ (token.exp = NoExp \/ token.exp * 1000 > DateNow)

\* (payload.exp as number) * 1000: without an exp claim the product is NaN,
\* which is falsy like an absent apiTokenExpiresAt and which the session
\* store's JSON writes as null
ExpiresAt(token) == IF token.exp = NoExp THEN NoExpiry ELSE token.exp * 1000

\* if (payload.role): a claim that is absent or the empty string is falsy
RoleIsTruthy(role) ==
    role.kind = "array" \/ (role.kind = "string" /\ role.value[1] # "")

\* a normalisation that takes arrays only
RolesOf_ArrayOnly(role) ==
    IF role.kind = "array" THEN role.value ELSE <<>>

\* the role claim as a list of roles: a string (carried as value[1]), an
\* array, or neither
RolesOf(role) ==
    IF ~RoleIsTruthy(role) THEN <<>>
    ELSE IF role.kind = "string" THEN <<role.value[1]>>
    ELSE IF role.kind = "array" THEN role.value
    ELSE <<>>

\* the end of ensureUserHasApiAccess outside refreshAccessToken
GateEnded(step, res) ==
    /\ proc' = [proc EXCEPT ![step.p] = Idle]
    /\ io' = [step EXCEPT !.handler = "ensureUserHasApiAccess",
                          !.outcome = res]

\* ensureUserAuthenticated and the refresh test
GateStart(p, s) ==
    /\ proc[p].pc = "done"
    /\ IF ~has(session[s], "user")
       THEN GateEnded([NoIO EXCEPT !.at = "GateStart", !.p = p, !.s = s],
                      Redirect("/auth/login"))
       ELSE IF NeedsApiToken(session[s]["user"])
       THEN RefreshIssue("GateStart", p, s, "ensureUserHasApiAccess",
                         session[s]["user"])
       ELSE GateEnded([NoIO EXCEPT !.at = "GateStart", !.p = p, !.s = s],
                      [NoResult EXCEPT !.status = "ok",
                                       !.user = session[s]["user"]])
    /\ UNCHANGED <<session, store, codes, urls, now, issued, meta>>

\* the enrich-token response arrives; the token is verified and the user in
\* the session is updated
GateFetch(p, response) ==
    /\ proc[p].pc = "gate_fetch"
    /\ LET me == proc[p]
           step == [NoIO EXCEPT !.at = "GateFetch", !.p = p, !.s = me.s,
                               !.call = "enrich-token",
                               !.account = me.account,
                               !.response = response]
           user == [me.user EXCEPT
                       !.apiToken = response.token,
                       !.apiTokenExpiresAt = ExpiresAt(response.token),
                       !.roles = RolesOf(response.token.role)]
       IN IF ~response.ok
          THEN /\ GateEnded(step,
                     Failed([name |-> "Error", code |-> Undefined,
                             message |-> <<"Backend authentication failed">>]))
               /\ session' = session
          ELSE IF ~jwtVerify(response.token)
          THEN /\ GateEnded(step,
                     Failed([name |-> "JOSEError", code |-> "ERR_JWT_INVALID",
                             message |-> <<"jwtVerify">>]))
               /\ session' = session
          ELSE /\ GateEnded(step,
                     [NoResult EXCEPT !.status = "ok", !.user = user])
               /\ session' = [session EXCEPT ![me.s] = set(@, "user", user)]
    /\ UNCHANGED <<store, codes, urls, now, issued, meta>>

\* a minute passes
Tick ==
    /\ now < MaxTime
    /\ now' = now + 1
    /\ io' = NoIO
    /\ UNCHANGED <<session, store, codes, urls, proc, issued, meta>>

\* ------------------------------------------------------------- cache store
\* an entry written with EX ttl expires
Expire(key) ==
    /\ store[key] # <<>>
    /\ store' = [store EXCEPT ![key] = <<>>]
    /\ io' = NoIO
    /\ UNCHANGED <<session, codes, urls, now, proc, issued, meta>>
\* ------------------------------------------------------------- getMetadata
\* the value returned for one of the two documents, as it is handed back
MetaReturn_Raw(value) == value

\* typeof value === "string" ? value : JSON.stringify(value)
MetaReturn(value) ==
    IF value.type = "string" THEN value ELSE JSONstringify(value)

\* the resolution in progress ends, with a result or an error
MetaEnded(at, r, run, metaStore) ==
    /\ meta' = [meta EXCEPT !.store = metaStore,
                           !.res[r] = NoResolution,
                           !.runs = Append(meta.runs, run)]
    /\ io' = [NoIO EXCEPT !.at = at, !.p = r, !.op = "getMetadata",
                 !.result = IF run.status = "error" THEN Failed(run.error)
                            ELSE [NoResult EXCEPT !.status = "ok"]]

\* resolutions started so far
Resolutions ==
    Len(meta.runs) + Cardinality({r \in Resolvers : meta.res[r].pc # "idle"})

\* createMsalProvider calls getMetadata, which issues the two cache reads
MetaStart(r, clientId, tenantId) ==
    /\ meta.res[r].pc = "idle"
    /\ Resolutions < MaxResolutions
    /\ meta' = [meta EXCEPT
          !.res[r] = [NoResolution EXCEPT
                         !.pc = "read",
                         !.run = [NoRun EXCEPT !.clientId = clientId,
                                               !.tenantId = tenantId]]]
    /\ io' = [NoIO EXCEPT !.at = "MetaStart", !.p = r, !.ev = "start"]
    /\ UNCHANGED <<session, store, codes, urls, now, proc, issued>>

\* the two reads of the Redis client complete, or one rejects and getMetadata
\* rejects with it; with both entries present they are the result, else the
\* two fetches are issued
MetaRead(r, backendOk) ==
    /\ meta.res[r].pc = "read"
    /\ LET run == meta.res[r].run
           cloudDiscoveryMetadata ==
               meta.store[MetaKey(run.clientId, run.tenantId, "discovery-metadata")]
           authorityMetadata ==
               meta.store[MetaKey(run.clientId, run.tenantId, "authority-metadata")]
       IN IF ~backendOk
          THEN MetaEnded("MetaRead", r,
                  [run EXCEPT !.cacheFailed = TRUE, !.status = "error",
                              !.error = [name |-> "Error", code |-> "redis_error",
                                         message |-> <<"get">>]],
                  meta.store)
          ELSE IF cloudDiscoveryMetadata = Null \/ authorityMetadata = Null
          THEN /\ meta' = [meta EXCEPT
                     !.res[r].pc = "fetch",
                     !.res[r].run.cold = (cloudDiscoveryMetadata = Null
                                          /\ authorityMetadata = Null)]
               /\ io' = [NoIO EXCEPT !.at = "MetaRead", !.p = r]
          ELSE MetaEnded("MetaRead", r,
                  [run EXCEPT !.status = "ok",
                      !.cloudDiscoveryMetadata = MetaReturn(cloudDiscoveryMetadata),
                      !.authorityMetadata = MetaReturn(authorityMetadata)],
                  meta.store)
    /\ UNCHANGED <<session, store, codes, urls, now, proc, issued>>

\* fetchCloudDiscoveryMetadata and fetchOIDCMetadata complete; a failure of
\* either rejects getMetadata, else the first cache write is issued
MetaFetch(r, discoveryOk, oidcOk, v1, v2) ==
    /\ meta.res[r].pc = "fetch"
    /\ LET run == [meta.res[r].run EXCEPT !.discoveryFetches = @ + 1,
                                          !.oidcFetches = @ + 1]
           error == [message |-> <<"Failed to fetch metadata">>, code |-> Undefined]
       IN IF discoveryOk /\ oidcOk
          THEN /\ meta' = [meta EXCEPT
                     !.res[r] = [pc |-> "set_discovery", run |-> run,
                         cloudDiscoveryMetadata |->
                             Parsed([kind |-> "discovery",
                                     tenant |-> run.tenantId, version |-> v1]),
                         authorityMetadata |->
                             Parsed([kind |-> "oidc",
                                     tenant |-> run.tenantId, version |-> v2])]]
               /\ io' = [NoIO EXCEPT !.at = "MetaFetch", !.p = r,
                                     !.call = "fetch"]
          ELSE MetaEnded("MetaFetch", r,
                  [run EXCEPT !.status = "error",
                      !.error = createAuthError(sanitizeError(error),
                                   "METADATA_ERROR",
                                   <<"Failed to fetch authentication configuration">>)],
                  meta.store)
    /\ UNCHANGED <<session, store, codes, urls, now, proc, issued>>

\* a cache write of the Redis client completes, or rejects and getMetadata
\* rejects with it; after the second write the two documents are returned
MetaSet(r, backendOk) ==
    /\ meta.res[r].pc \in {"set_discovery", "set_authority"}
    /\ LET me == meta.res[r]
           run == me.run
           first == me.pc = "set_discovery"
           key == MetaKey(run.clientId, run.tenantId,
                     IF first THEN "discovery-metadata" ELSE "authority-metadata")
           value == JSONstringify(IF first THEN me.cloudDiscoveryMetadata
                                  ELSE me.authorityMetadata)
           written == [meta.store EXCEPT ![key] = value]
       IN IF ~backendOk
          THEN MetaEnded("MetaSet", r,
                  [run EXCEPT !.cacheFailed = TRUE, !.status = "error",
                              !.error = [name |-> "Error", code |-> "redis_error",
                                         message |-> <<"set">>]],
                  meta.store)
          ELSE IF first
          THEN /\ meta' = [meta EXCEPT !.res[r].pc = "set_authority",
                                      !.store = written]
               /\ io' = [NoIO EXCEPT !.at = "MetaSet", !.p = r]
          ELSE MetaEnded("MetaSet", r,
                  [run EXCEPT !.status = "ok",
                      !.cloudDiscoveryMetadata =
                          MetaReturn(me.cloudDiscoveryMetadata),
                      !.authorityMetadata = MetaReturn(me.authorityMetadata)],
                  written)
    /\ UNCHANGED <<session, store, codes, urls, now, proc, issued>>

\* ------------------------------------------------------------------ inputs
\* every code the provider can issue
AllCodes ==
    {[challenge |-> generateCodeChallenge(Verifier(k)), account |-> a] :
        k \in Draws, a \in Accounts}

\* callbacks that carry a code, issued or not, and any state
CodeCallbacks ==
    {[code |-> c, state |-> st, error |-> Undefined, description |-> Undefined] :
        c \in AllCodes \cup {NoCode}, st \in StateParams}

\* callbacks that carry an error parameter
ErrorCallbacks ==
    {[code |-> NoCode, state |-> NoString, error |-> e, description |-> d] :
        e \in ErrorParams \ {Undefined}, d \in DescriptionParams}

Callbacks == CodeCallbacks \cup ErrorCallbacks

\* the callback the provider redirects the browser to after Authorize
GenuineCallbacks(s) ==
    {[code |-> c, state |-> IF has(session[s], "state")
                            THEN session[s]["state"] ELSE NoString,
      error |-> Undefined, description |-> Undefined] : c \in codes}

SilentOutcomes == {"cached", "renewed", "failed"}

\* enrich-token responses: a failure, or a token that expires in Lifetimes
\* minutes, signed or not, with each shape of role claim
Lifetimes == {3, 6}

RoleClaims == {[kind |-> "none", value |-> <<>>],
               [kind |-> "string", value |-> <<"admin">>],
               [kind |-> "string", value |-> <<"">>],
               [kind |-> "array", value |-> <<"admin", "user">>]}

Responses ==
    {[ok |-> FALSE, token |-> NoToken]} \cup
    {[ok |-> TRUE, token |-> [exp |-> (now + l) * 60, role |-> r, signed |-> sg]] :
        l \in Lifetimes \cup {0}, r \in RoleClaims, sg \in BOOLEAN}

\* enrich-token responses whose token carries no exp claim
ResponsesWithoutExp ==
    {[ok |-> TRUE, token |-> [exp |-> NoExp, role |-> r, signed |-> sg]] :
        r \in RoleClaims, sg \in BOOLEAN}

\* ---------------------------------------------------------- specifications
\* one browser session driving the login flow with arbitrary callbacks
NextPkce ==
    \/ \E r \in ReturnUrlArgs, k \in Draws : GenStart("p1", "s1", r, k)
    \/ \E ok \in BOOLEAN : GenStore("p1", ok)
    \/ \E url \in urls, a \in Accounts : Authorize(url, a)
    \/ \E cb \in Callbacks : ExchangeStart("p1", "s1", "direct", cb)
    \/ \E networkOk \in BOOLEAN : ExchangeToken("p1", networkOk)
    \/ \E backendOk \in BOOLEAN : ExchangeRead("p1", backendOk)
    \/ \E backendOk \in BOOLEAN : ExchangeWrite("p1", backendOk)

SpecPkce == Init /\ [][NextPkce]_vars

\* two browser sessions, one request at a time each, sharing the cache
SessionOf(p) == IF p = "p1" THEN "s1" ELSE "s2"

NextCache ==
    \E p \in Procs :
        \/ GenStart(p, SessionOf(p), Undefined, 1)
        \/ GenStore(p, TRUE)
        \/ \E url \in urls, a \in Accounts : Authorize(url, a)
        \/ \E cb \in GenuineCallbacks(SessionOf(p)) :
              ExchangeStart(p, SessionOf(p), "processAuthCallback", cb)
        \/ ExchangeToken(p, TRUE)
        \/ ExchangeRead(p, TRUE)
        \/ ExchangeWrite(p, TRUE)
        \/ RefreshStart(p, SessionOf(p))
        \/ RefreshAccounts(p, TRUE)
        \/ \E outcome \in SilentOutcomes : RefreshSilent(p, TRUE, outcome)
        \/ RefreshWrite(p, TRUE)
        \/ LogoutStart(p, SessionOf(p), "direct", <<"/">>)
        \/ LogoutAccounts(p, TRUE)
        \/ LogoutRemove(p, TRUE)
        \/ LogoutWrite(p, TRUE)
        \/ \E key \in Accounts : Expire(key)

SpecCache == Init /\ [][NextCache]_vars

\* one browser session with two requests in flight: one signs in and out,
\* the other refreshes and signs out
NextRace ==
    \/ GenStart("p1", "s1", Undefined, 1)
    \/ GenStore("p1", TRUE)
    \/ \E url \in urls, a \in Accounts : Authorize(url, a)
    \/ \E cb \in GenuineCallbacks("s1") :
          ExchangeStart("p1", "s1", "processAuthCallback", cb)
    \/ ExchangeToken("p1", TRUE)
    \/ ExchangeRead("p1", TRUE)
    \/ ExchangeWrite("p1", TRUE)
    \/ RefreshStart("p2", "s1")
    \/ \E p \in Procs, returnPath \in ReturnPaths :
          LogoutStart(p, "s1", "direct", returnPath)
    \/ \E p \in Procs, backendOk \in BOOLEAN :
          \/ LogoutAccounts(p, backendOk)
          \/ LogoutRemove(p, backendOk)
          \/ LogoutWrite(p, backendOk)
          \/ RefreshAccounts(p, backendOk)
          \/ \E outcome \in SilentOutcomes : RefreshSilent(p, backendOk, outcome)
          \/ RefreshWrite(p, backendOk)

SpecRace == Init /\ [][NextRace]_vars

\* one browser session through the handlers of auth.utils.server
NextGate ==
    \/ GenStart("p1", "s1", Undefined, 1)
    \/ GenStore("p1", TRUE)
    \/ \E url \in urls, a \in Accounts : Authorize(url, a)
    \/ \E cb \in GenuineCallbacks("s1") :
          ExchangeStart("p1", "s1", "processAuthCallback", cb)
    \/ ExchangeToken("p1", TRUE)
    \/ ExchangeRead("p1", TRUE)
    \/ ExchangeWrite("p1", TRUE)
    \/ GateStart("p1", "s1")
    \/ RefreshAccounts("p1", TRUE)
    \/ \E outcome \in SilentOutcomes : RefreshSilent("p1", TRUE, outcome)
    \/ RefreshWrite("p1", TRUE)
    \/ \E response \in Responses : GateFetch("p1", response)
    \/ \E returnPath \in ReturnPaths, caller \in {"direct", "processUserLogout"} :
          LogoutStart("p1", "s1", caller, returnPath)
    \/ \E backendOk \in BOOLEAN : LogoutAccounts("p1", backendOk)
    \/ \E backendOk \in BOOLEAN : LogoutRemove("p1", backendOk)
    \/ \E backendOk \in BOOLEAN : LogoutWrite("p1", backendOk)
    \/ LogoutRejected("p1")
    \/ Tick
    \/ \E key \in Accounts : Expire(key)

SpecGate == Init /\ [][NextGate]_vars

\* provider construction: the metadata resolver alone, one call at a time
NextMeta ==
    \/ \E clientId \in ClientIds, tenantId \in TenantIds :
          MetaStart("r1", clientId, tenantId)
    \/ \E backendOk \in BOOLEAN : MetaRead("r1", backendOk)
    \/ \E discoveryOk \in BOOLEAN, oidcOk \in BOOLEAN,
          v1 \in Versions, v2 \in Versions :
          MetaFetch("r1", discoveryOk, oidcOk, v1, v2)
    \/ \E backendOk \in BOOLEAN : MetaSet("r1", backendOk)

SpecMeta == Init /\ [][NextMeta]_vars

\* provider construction by two instances at once, with a working cache
\* backend and a reachable provider
NextMetaRace ==
    \E r \in Resolvers :
        \/ \E clientId \in ClientIds, tenantId \in TenantIds :
              MetaStart(r, clientId, tenantId)
        \/ MetaRead(r, TRUE)
        \/ \E v1 \in Versions, v2 \in Versions : MetaFetch(r, TRUE, TRUE, v1, v2)
        \/ MetaSet(r, TRUE)

SpecMetaRace == Init /\ [][NextMetaRace]_vars

\* the callbacks of duplicate tabs: the codes of one account, issued or not
TabCallbacks ==
    {[code |-> [challenge |-> generateCodeChallenge(Verifier(k)),
                account |-> <<1>>],
      state |-> Nonce(k), error |-> Undefined, description |-> Undefined] :
        k \in Draws}

\* duplicate tabs: two requests of one browser session, each starting logins
\* and sending callbacks, in any order
NextTabs ==
    \E p \in Procs :
        \/ \E r \in {Undefined, "/dashboard"}, k \in Draws :
              GenStart(p, "s1", r, k)
        \/ \E ok \in BOOLEAN : GenStore(p, ok)
        \/ \E url \in urls : Authorize(url, <<1>>)
        \/ \E cb \in TabCallbacks : ExchangeStart(p, "s1", "direct", cb)
        \/ ExchangeToken(p, TRUE)
        \/ ExchangeRead(p, TRUE)
        \/ ExchangeWrite(p, TRUE)

SpecTabs == Init /\ [][NextTabs]_vars

\* one browser session through the four handlers of auth.utils.server, one
\* request at a time
NextHandlers ==
    \/ \E r \in ReturnUrlArgs : LoginStart("p1", "s1", r)
    \/ LoginGen("p1", 1)
    \/ GenStore("p1", TRUE)
    \/ \E url \in urls, a \in Accounts : Authorize(url, a)
    \/ \E cb \in GenuineCallbacks("s1") :
          ExchangeStart("p1", "s1", "processAuthCallback", cb)
    \/ ExchangeToken("p1", TRUE)
    \/ ExchangeRead("p1", TRUE)
    \/ ExchangeWrite("p1", TRUE)
    \/ GateStart("p1", "s1")
    \/ RefreshAccounts("p1", TRUE)
    \/ \E outcome \in SilentOutcomes : RefreshSilent("p1", TRUE, outcome)
    \/ RefreshWrite("p1", TRUE)
    \/ \E response \in Responses : GateFetch("p1", response)
    \/ \E returnPath \in ReturnPaths :
          LogoutStart("p1", "s1", "processUserLogout", returnPath)
    \/ LogoutAccounts("p1", TRUE)
    \/ LogoutRemove("p1", TRUE)
    \/ LogoutWrite("p1", TRUE)
    \/ LogoutRejected("p1")
    \/ Tick
    \/ \E key \in Accounts : Expire(key)

SpecHandlers == Init /\ [][NextHandlers]_vars

\* a login followed by requests to protected routes, against a backend
\* whose tokens may lack the exp claim
NextAccess ==
    \/ GenStart("p1", "s1", Undefined, 1)
    \/ GenStore("p1", TRUE)
    \/ \E url \in urls : Authorize(url, <<1>>)
    \/ \E cb \in GenuineCallbacks("s1") :
          ExchangeStart("p1", "s1", "processAuthCallback", cb)
    \/ ExchangeToken("p1", TRUE)
    \/ ExchangeRead("p1", TRUE)
    \/ ExchangeWrite("p1", TRUE)
    \/ GateStart("p1", "s1")
    \/ RefreshAccounts("p1", TRUE)
    \/ \E outcome \in SilentOutcomes : RefreshSilent("p1", TRUE, outcome)
    \/ RefreshWrite("p1", TRUE)
    \/ \E response \in Responses \cup ResponsesWithoutExp :
          GateFetch("p1", response)
    \/ Tick

SpecAccess == Init /\ [][NextAccess]_vars

\* all the steps of the nine specifications together
Next ==
    \/ NextPkce \/ NextCache \/ NextRace \/ NextGate \/ NextMeta \/ NextTabs
    \/ NextMetaRace \/ NextHandlers \/ NextAccess

Spec == Init /\ [][Next]_vars

\* ------------------------------------------------------------------ claims
HasPkce(s) ==
    \/ has(session[s], "codeVerifier")
    \/ has(session[s], "state")
    \/ has(session[s], "returnUrl")

\* the returnUrl the last generateAuthorizationUrl of the session stored
IssuedReturnUrl(s) ==
    IF issued[s].arg = Undefined THEN "/" ELSE issued[s].arg

Completed(op) == io.op = op

\* C1: once exchangeCodeForTokens has completed, with tokens or with any
\* failure, the session holds none of codeVerifier, state and returnUrl
C1_NoLeak == Completed("exchangeCodeForTokens") => ~HasPkce(io.s)

\* C3: a callback whose state differs from the state stored in the session
\* makes exchangeCodeForTokens fail with an AuthError and leaves
\* homeAccountId as it was, whether the call ends in its head or later
C3_StateValidated ==
    [][\A p \in Procs :
          LET rejected ==
                  /\ io'.op = "exchangeCodeForTokens"
                  /\ io'.result.status = "error"
                  /\ io'.result.error.name = "AuthError"
                  /\ getKey(session'[io'.s]) = getKey(session[io'.s])
          IN /\ ( /\ io'.p = p /\ io'.at = "ExchangeStart"
                  /\ io'.op = "exchangeCodeForTokens"
                  /\ has(session[io'.s], "state")
                  /\ io'.cb.state # session[io'.s]["state"] ) => rejected
             /\ ( /\ io'.p = p /\ io'.op = "exchangeCodeForTokens"
                  /\ io'.at # "ExchangeStart"
                  /\ proc[p].cbState # proc[p].state ) => rejected
      ]_vars

\* C5: after generateAuthorizationUrl(session, r) returns a URL the session
\* holds codeVerifier, state and returnUrl = r ("/" when omitted), and the
\* URL carries the stored state, S256, and the challenge of the stored verifier
C5_AuthorizationUrl ==
    (io.at = "GenStore" /\ io.result.status = "ok") =>
        LET sess == session[io.s]
            url == io.result.url
        IN /\ has(sess, "codeVerifier") /\ has(sess, "state")
           /\ has(sess, "returnUrl")
           /\ sess["returnUrl"] = IssuedReturnUrl(io.s)
           /\ url.state = sess["state"]
           /\ url.code_challenge_method = "S256"
           /\ url.code_challenge = <<"sha256", sess["codeVerifier"]>>

C5_Witness ==
    /\ io.at = "GenStore" /\ io.result.status = "ok"
    /\ issued[io.s].arg = "/dashboard"
    /\ session[io.s]["returnUrl"] = "/dashboard"

\* C6 as stated: on a successful exchange homeAccountId is the account the
\* provider returned and redirectTo is the stored returnUrl
C6_RedirectStored ==
    (io.at = "ExchangeWrite" /\ io.result.status = "ok") =>
        /\ has(session[io.s], "homeAccountId")
        /\ session[io.s]["homeAccountId"] = io.account
        /\ io.result.redirectTo = IssuedReturnUrl(io.s)

\* C6: on a successful exchange homeAccountId is the account the provider
\* returned and redirectTo is the stored returnUrl, or "/" when the stored
\* returnUrl is the empty string
C6_RedirectTo ==
    (io.at = "ExchangeWrite" /\ io.result.status = "ok") =>
        /\ has(session[io.s], "homeAccountId")
        /\ session[io.s]["homeAccountId"] = io.account
        /\ io.result.account = io.account
        /\ io.result.redirectTo = IF IssuedReturnUrl(io.s) = "" THEN "/"
                                  ELSE IssuedReturnUrl(io.s)

C6_Witness ==
    /\ io.at = "ExchangeWrite" /\ io.result.status = "ok"
    /\ session[io.s]["homeAccountId"] = <<1, 2>>
    /\ issued[io.s].arg = "/dashboard"
    /\ io.result.redirectTo = "/dashboard"

\* the exchange ended in its head with the provider's error and nothing else
RejectedAsProviderError ==
    /\ io'.op = "exchangeCodeForTokens"
    /\ io'.result.status = "error"
    /\ io'.result.error.name = "AuthError"
    /\ io'.result.error.code = io'.cb.error
    /\ (io'.cb.description # Undefined =>
           io'.cb.description \in Range(io'.result.error.message))
    /\ proc'[io'.p].pc = "done"
    /\ io'.call = "none"
    /\ codes' = codes
    /\ getKey(session'[io'.s]) = getKey(session[io'.s])

\* C7 as stated: a callback that carries an error parameter, whatever its
\* value, is rejected with the provider's code and description, without a
\* token-endpoint call and without setting homeAccountId
C7_ErrorParameter ==
    [][(io'.at = "ExchangeStart" /\ io'.cb.error # Undefined)
          => RejectedAsProviderError]_vars

\* C7: a callback that carries a non-empty error parameter is rejected with
\* the provider's code and description, without a token-endpoint call and
\* without setting homeAccountId
C7_NonEmptyErrorParameter ==
    [][(io'.at = "ExchangeStart" /\ io'.cb.error # Undefined /\ io'.cb.error # "")
          => RejectedAsProviderError]_vars

C7_Witness ==
    /\ io.at = "ExchangeStart"
    /\ io.cb.error = "access_denied" /\ io.cb.description = "User cancelled"
    /\ io.result.status = "error"
    /\ io.result.error.code = "access_denied"

\* C2: every cache command that reaches the backing store for a session uses
\* the session's own partition key (its homeAccountId before or after the
\* step), and refreshAccessToken returns tokens only of the account that is
\* the session's homeAccountId
C2_PartitionIsolation ==
    [][/\ (io'.cache # "none" /\ io'.store) =>
              \/ ( /\ has(session[io'.s], "homeAccountId")
                   /\ io'.key = session[io'.s]["homeAccountId"] )
              \/ ( /\ has(session'[io'.s], "homeAccountId")
                   /\ io'.key = session'[io'.s]["homeAccountId"] )
       /\ (io'.op = "refreshAccessToken" /\ io'.result.status = "ok") =>
              /\ has(session'[io'.s], "homeAccountId")
              /\ io'.result.account = session'[io'.s]["homeAccountId"]
      ]_vars

\* C4: for a session without homeAccountId the partition key is the empty
\* string; the adapter answers get and set on the empty key with the empty
\* string and leaves the backing store alone; and a refreshAccessToken whose
\* key is empty returns null without a silent acquisition
C4_EmptyKey ==
    [][/\ (io'.at = "RefreshStart" /\ ~has(session[io'.s], "homeAccountId")) =>
              proc'[io'.p].key = EMPTY_STRING
       /\ (io'.cache # "none" /\ io'.key = EMPTY_STRING) =>
              /\ ~io'.store
              /\ io'.value = EMPTY_STRING
              /\ store' = store
       /\ (io'.at = "RefreshAccounts" /\ io'.key = EMPTY_STRING) =>
              /\ io'.op = "refreshAccessToken"
              /\ io'.result.status = "null"
              /\ io'.call = "none"
      ]_vars

C4_Witness ==
    /\ io.at = "RefreshAccounts" /\ io.key = EMPTY_STRING
    /\ ~has(session[io.s], "homeAccountId")
    /\ has(session[io.s], "user")
    /\ \E k \in Accounts : store[k] # <<>>
    /\ io.result.status = "null"

\* C8: when the silent acquisition fails, refreshAccessToken fails with the
\* code TOKEN_REFRESH_ERROR and ensureUserHasApiAccess redirects to login
\* with the apiToken removed from the session's user
C8_RefreshFailureIsExpiry ==
    (io.at = "RefreshSilent" /\ io.result.status = "error") =>
        /\ io.result.error.code = "TOKEN_REFRESH_ERROR"
        /\ io.handler = "ensureUserHasApiAccess" =>
              /\ io.outcome.status = "redirect"
              /\ io.outcome.redirectTo = "/auth/login"
              /\ has(session[io.s], "user") =>
                    session[io.s]["user"].apiToken = NoToken

\* C9: a refreshAccessToken whose partition read yields zero accounts returns
\* the null result, not an error, and issues no silent acquisition
C9_NoAccounts ==
    (io.at = "RefreshAccounts" /\ Len(io.value) = 0) =>
        /\ io.op = "refreshAccessToken"
        /\ io.result.status = "null"
        /\ io.result.error = NoError
        /\ io.call = "none"
        /\ \A p \in Procs : proc[p].op = "refreshAccessToken" => io.p # p

C9_Witness ==
    /\ io.at = "RefreshAccounts" /\ Len(io.value) = 0
    /\ io.store
    /\ has(session[io.s], "homeAccountId")
    /\ io.key = session[io.s]["homeAccountId"]
    /\ io.result.status = "null"

\* C10: with cached accounts, the account selected is the first whose id
\* contains the session's homeAccountId, or the first account when the
\* session has none; with no account selected the result is null, and the
\* silent acquisition is issued for the selected account only
C10_Selection ==
    (io.at = "RefreshAccounts" /\ Len(io.value) > 0) =>
        LET accounts == io.value
            hid == IF has(session[io.s], "homeAccountId")
                   THEN session[io.s]["homeAccountId"] ELSE <<>>
            Contains(acc) ==
                \E i \in 0..(Len(acc) - Len(hid)) :
                    \A j \in 1..Len(hid) : acc[i + j] = hid[j]
            matches == {i \in 1..Len(accounts) : hid = <<>> \/ Contains(accounts[i])}
        IN IF matches = {}
           THEN /\ io.op = "refreshAccessToken"
                /\ io.result.status = "null"
                /\ io.call = "none"
           ELSE /\ io.op = "none"
                /\ io.call = "acquireTokenSilent"
                /\ \E i \in matches :
                      /\ \A j \in matches : i <= j
                      /\ io.account = accounts[i]
                      /\ proc[io.p].account = accounts[i]

C10_Witness ==
    /\ io.at = "RefreshAccounts" /\ Len(io.value) = 2
    /\ has(session[io.s], "homeAccountId")
    /\ session[io.s]["homeAccountId"] = <<1>>
    /\ io.value[1] = <<1, 2>>
    /\ io.call = "acquireTokenSilent"
    /\ io.account = <<1, 2>>

\* a return path with a scheme or a leading "//"
External(returnPath) ==
    \/ \E i \in 1..Len(returnPath) : returnPath[i] = "://"
    \/ (Len(returnPath) >= 2 /\ returnPath[1] = "/" /\ returnPath[2] = "/")

\* C11: logout with a return path that has a scheme or starts with "//"
\* fails with the invalid-return-URL AuthError in its head: no token-cache
\* or provider call is issued and session and cache stay as they were
C11_InvalidReturnPath ==
    [][(io'.at = "LogoutStart" /\ External(io'.returnPath)) =>
          /\ io'.op = "logout"
          /\ io'.result.status = "error"
          /\ io'.result.error.name = "AuthError"
          /\ io'.result.error.message = <<"Invalid return URL">>
          /\ io'.cache = "none" /\ io'.call = "none"
          /\ proc'[io'.p].pc = "done"
          /\ session' = session
          /\ store' = store
      ]_vars

C11_Witness ==
    /\ io.at = "LogoutStart" /\ io.returnPath = <<"/", "/", "evil">>
    /\ io.result.status = "error"
    /\ has(session[io.s], "homeAccountId")
    /\ session[io.s]["homeAccountId"] \in Range(store[session[io.s]["homeAccountId"]])

\* C12: a logout with a valid return path always returns the provider logout
\* URL and leaves the session without homeAccountId, whatever happens while
\* the cached account is looked up or removed
C12_LogoutNotBlocked ==
    [][(io'.op = "logout" /\ ~(io'.at = "LogoutStart" /\ External(io'.returnPath))) =>
          /\ io'.result.status = "ok"
          /\ "post_logout_redirect_uri" \in DOMAIN io'.result.url
          /\ ~has(session'[io'.s], "homeAccountId")
      ]_vars

\* C13: a successful authProvider.logout removes homeAccountId from the
\* session and leaves every other field of the session as it was
C13_LogoutFrame ==
    [][(io'.op = "logout" /\ io'.result.status = "ok" /\ io'.handler = "none") =>
          /\ DOMAIN session'[io'.s] = DOMAIN session[io'.s] \ {"homeAccountId"}
          /\ \A k \in DOMAIN session'[io'.s] : session'[io'.s][k] = session[io'.s][k]
      ]_vars

C13_Witness ==
    /\ io.at = "LogoutWrite" /\ io.op = "logout" /\ io.result.status = "ok"
    /\ io.handler = "none"
    /\ ~has(session[io.s], "homeAccountId")
    /\ has(session[io.s], "user")
    /\ session[io.s]["user"].apiToken # NoToken
    /\ session[io.s]["user"].roles = <<"admin", "user">>

\* C14: get answers the stored value, or the empty string when the key is
\* missing or the backend fails; set answers the empty string and writes
\* nothing when the backend fails; neither makes the operation that issued
\* it fail
C14_AdapterNeverThrows ==
    [][/\ io'.cache = "get" =>
              io'.value = IF io'.key # <<>> /\ io'.backendOk
                          THEN store[io'.key] ELSE <<>>
       /\ (io'.cache = "set" /\ ~io'.backendOk) =>
              (io'.value = <<>> /\ store' = store)
       /\ (io'.cache = "set" /\ io'.backendOk /\ io'.key # <<>>) =>
              (io'.value = <<"OK">> /\ store'[io'.key] = proc[io'.p].kv)
       /\ (io'.cache # "none" /\ ~io'.backendOk /\ io'.at # "RefreshSilent") =>
              io'.result.status # "error"
      ]_vars

C14_Witness ==
    /\ io.cache = "get" /\ ~io.backendOk
    /\ io.key # <<>> /\ store[io.key] # <<>>
    /\ io.value = <<>>
    /\ io.result.status # "error"

\* C15 (metadata lookup): a resolution during which the cache backend fails
\* still returns the metadata, re-fetched from the provider
C15_CacheOutageIsColdCache ==
    \A i \in 1..Len(meta.runs) :
        meta.runs[i].cacheFailed =>
            /\ meta.runs[i].status = "ok"
            /\ meta.runs[i].discoveryFetches = 1
            /\ meta.runs[i].oidcFetches = 1

\* C16: of two resolutions for the same clientId and tenantId that both
\* return, the first starting without the two entries, the first performs
\* one fetch of each document and the second performs none and returns the
\* same two strings
C16_CacheHitIdempotence ==
    \A i \in 1..Len(meta.runs) :
        (/\ i + 1 <= Len(meta.runs)
         /\ meta.runs[i].clientId = meta.runs[i + 1].clientId
         /\ meta.runs[i].tenantId = meta.runs[i + 1].tenantId
         /\ meta.runs[i].cold
         /\ meta.runs[i].status = "ok" /\ meta.runs[i + 1].status = "ok") =>
            /\ meta.runs[i].discoveryFetches = 1
            /\ meta.runs[i].oidcFetches = 1
            /\ meta.runs[i + 1].discoveryFetches = 0
            /\ meta.runs[i + 1].oidcFetches = 0
            /\ meta.runs[i].cloudDiscoveryMetadata.type = "string"
            /\ meta.runs[i + 1].cloudDiscoveryMetadata
                  = meta.runs[i].cloudDiscoveryMetadata
            /\ meta.runs[i + 1].authorityMetadata = meta.runs[i].authorityMetadata

C16_Witness ==
    /\ Len(meta.runs) >= 2
    /\ meta.runs[1].cold /\ meta.runs[1].status = "ok"
    /\ meta.runs[2].status = "ok"
    /\ meta.runs[2].clientId = meta.runs[1].clientId
    /\ meta.runs[2].tenantId = meta.runs[1].tenantId
    /\ meta.runs[2].discoveryFetches = 0
    /\ meta.runs[2].cloudDiscoveryMetadata.doc.version = 2

\* the gate is invoked on a session whose user has no API token, or one that
\* expires less than five minutes from now
StaleApiToken(s) ==
    /\ has(session[s], "user")
    /\ \/ session[s]["user"].apiToken = NoToken
       \/ session[s]["user"].apiTokenExpiresAt - DateNow < 5 * 60 * 1000

\* C17: ensureUserHasApiAccess invoked with a user whose API token is absent
\* or expires less than five minutes from now does not return the cached
\* token: it starts the refresh that leads to the enrichment call, and when it
\* then returns a user, the token is the one the endpoint answered
C17_RefetchWithinWindow ==
    [][/\ (io'.at = "GateStart" /\ StaleApiToken(io'.s)) =>
            /\ io'.outcome.status # "ok"
            /\ proc'[io'.p].op = "refreshAccessToken"
            /\ proc'[io'.p].caller = "ensureUserHasApiAccess"
       /\ (io'.handler = "ensureUserHasApiAccess" /\ io'.outcome.status = "ok"
            /\ io'.at # "GateFetch") =>
            /\ io'.at = "GateStart"
            /\ ~StaleApiToken(io'.s)
       /\ (io'.at = "GateFetch" /\ io'.outcome.status = "ok") =>
            io'.outcome.user.apiToken = io'.response.token]_vars

\* the gate was invoked one minute after a token with three minutes to live
\* was stored, and went to refresh
C17_Witness ==
    /\ io.at = "GateStart"
    /\ io.ev = "start"
    /\ has(session[io.s], "user")
    /\ session[io.s]["user"].apiToken # NoToken
    /\ session[io.s]["user"].apiTokenExpiresAt - DateNow = 2 * 60 * 1000

\* C18: in one invocation of ensureUserHasApiAccess the enrichment call is
\* issued only when refreshAccessToken has returned a token in that
\* invocation, with that token as bearer; on a null result the gate redirects
\* to login, issues no call and leaves the session as it was
C18_EnrichAfterRefresh ==
    [][\A p \in Procs :
        /\ (proc'[p].pc = "gate_fetch" /\ proc[p].pc # "gate_fetch") =>
              /\ proc[p].caller = "ensureUserHasApiAccess"
              /\ io'.p = p
              /\ io'.op = "refreshAccessToken"
              /\ io'.result.status = "ok"
              /\ proc'[p].account = io'.result.account
              /\ proc'[p].account # EMPTY_STRING
        /\ (proc'[p].pc = "gate_fetch" /\ proc[p].pc = "gate_fetch") =>
              proc'[p] = proc[p]
        /\ (io'.at = "GateFetch" /\ io'.p = p) =>
              /\ proc[p].pc = "gate_fetch"
              /\ io'.account = proc[p].account
        /\ (io'.p = p /\ io'.op = "refreshAccessToken"
              /\ proc[p].caller = "ensureUserHasApiAccess"
              /\ io'.result.status = "null") =>
              /\ io'.outcome = Redirect("/auth/login")
              /\ proc'[p].pc = "done"
              /\ session' = session]_vars

\* the enrichment call was made with the refreshed account's token
C18_Witness ==
    /\ io.at = "GateFetch"
    /\ io.account \in Accounts

\* C19: a non-success answer of the enrichment endpoint fails the gate with
\* the backend error, a token whose signature or expiry does not verify fails
\* it with the verification error, and in both cases the session is left as
\* it was
C19_EnrichmentFailure ==
    [][io'.at = "GateFetch" =>
        /\ ~io'.response.ok =>
              /\ io'.outcome.status = "error"
              /\ io'.outcome.error.message = <<"Backend authentication failed">>
              /\ session' = session
        /\ (/\ io'.response.ok
            /\ \/ ~io'.response.token.signed
               \/ io'.response.token.exp * 1000 <= DateNow) =>
              /\ io'.outcome.status = "error"
              /\ io'.outcome.error.name = "JOSEError"
              /\ session' = session]_vars

\* a signed token that has expired was rejected while the user held a token
C19_Witness ==
    /\ io.at = "GateFetch"
    /\ io.response.ok
    /\ io.response.token.signed
    /\ io.response.token.exp * 1000 <= DateNow
    /\ io.outcome.status = "error"
    /\ session[io.s]["user"].apiToken # NoToken

\* the roles of the user in the session against the role claim of its token
RolesStored(s, nonEmptyOnly) ==
    (has(session[s], "user") /\ session[s]["user"].apiToken # NoToken) =>
        LET role == session[s]["user"].apiToken.role
            roles == session[s]["user"].roles
        IN /\ (role.kind = "string"
                /\ (nonEmptyOnly => role.value[1] # "")) =>
                  roles = <<role.value[1]>>
           /\ (role.kind = "string" /\ nonEmptyOnly /\ role.value[1] = "") =>
                  roles = <<>>
           /\ role.kind = "array" => roles = role.value
           /\ role.kind = "none" => roles = <<>>

\* C20 as stated: the roles stored with a verified token are [r] for the
\* string claim r, the claim itself for an array, and empty without a claim
C20_RoleNormalization == \A s \in Sessions : RolesStored(s, FALSE)

\* C20 amended: the roles stored with a verified token are [r] for a
\* non-empty string claim r, the claim itself for an array, and empty without
\* a claim or with the empty string as claim
C20_NonEmptyRoleNormalization == \A s \in Sessions : RolesStored(s, TRUE)

\* a token with the single role admin was stored
C20_Witness ==
    /\ io.at = "GateFetch"
    /\ io.outcome.status = "ok"
    /\ io.response.token.role.kind = "string"
    /\ session[io.s]["user"].roles = <<"admin">>

\* C21: every failure carries its documented code: a failed code exchange is
\* an AuthError with code CALLBACK_ERROR, a failed silent refresh has
\* TOKEN_REFRESH_ERROR, a failed logout LOGOUT_ERROR and a failed metadata
\* fetch METADATA_ERROR
C21_StableCodes ==
    /\ (/\ io.op = "exchangeCodeForTokens" /\ io.call = "acquireTokenByCode"
        /\ io.result.status = "error") =>
          /\ io.result.error.name = "AuthError"
          /\ io.result.error.code = "CALLBACK_ERROR"
    /\ (io.op = "refreshAccessToken" /\ io.result.status = "error") =>
          io.result.error.code = "TOKEN_REFRESH_ERROR"
    /\ (io.op = "logout" /\ io.result.status = "error") =>
          io.result.error.code = "LOGOUT_ERROR"
    /\ (io.at = "MetaFetch" /\ io.result.status = "error") =>
          io.result.error.code = "METADATA_ERROR"

\* request p is inside exchangeCodeForTokens
Exchanging(p) == proc[p].op = "exchangeCodeForTokens" /\ proc[p].pc # "done"

\* C22: of the requests of one session that are inside
\* exchangeCodeForTokens with the same authorization code, the provider
\* redeems the code for one: redeeming takes the code out of the outstanding
\* codes, and a token request for a code that is not outstanding fails with
\* an AuthError; a request that starts with the code of a call in flight and
\* does not get to the provider fails with an AuthError too
C22_DuplicateExchange ==
    [][\A p \in Procs : \A q \in Procs \ {p} :
        /\ (io'.at = "ExchangeToken" /\ io'.p = p
              /\ io'.result.status # "error") =>
              /\ proc[p].code \in codes
              /\ proc[p].code \notin codes'
        /\ (io'.at = "ExchangeToken" /\ io'.p = q
              /\ proc[q].code \notin codes) =>
              /\ io'.result.status = "error"
              /\ io'.result.error.name = "AuthError"
        /\ (/\ Exchanging(p)
            /\ io'.at = "ExchangeStart" /\ io'.p = q /\ io'.s = proc[p].s
            /\ io'.cb.code = proc[p].code
            /\ ~Exchanging(q)') =>
              /\ io'.result.status = "error"
              /\ io'.result.error.name = "AuthError"]_vars

\* the resolutions that have returned for a clientId and tenantId
Returned(clientId, tenantId) ==
    {i \in 1..Len(meta.runs) :
        /\ meta.runs[i].clientId = clientId
        /\ meta.runs[i].tenantId = tenantId
        /\ meta.runs[i].status = "ok"}

\* C23: resolutions for one clientId and tenantId that run at the same time
\* all return, and once none is in progress the cache holds both entries of
\* the pair, each the JSON string of the document one of the resolutions
\* fetched and returned
C23_HarmlessRace ==
    /\ \A i \in 1..Len(meta.runs) : meta.runs[i].status = "ok"
    /\ (\A r \in Resolvers : meta.res[r].pc = "idle") =>
          \A clientId \in ClientIds, tenantId \in TenantIds :
              Returned(clientId, tenantId) # {} =>
                  LET discovery ==
                          meta.store[MetaKey(clientId, tenantId, "discovery-metadata")]
                      authority ==
                          meta.store[MetaKey(clientId, tenantId, "authority-metadata")]
                  IN /\ discovery.type = "string"
                     /\ discovery.doc.kind = "discovery"
                     /\ discovery.doc.tenant = tenantId
                     /\ \E i \in Returned(clientId, tenantId) :
                           meta.runs[i].cloudDiscoveryMetadata = discovery
                     /\ authority.type = "string"
                     /\ authority.doc.kind = "oidc"
                     /\ authority.doc.tenant = tenantId
                     /\ \E i \in Returned(clientId, tenantId) :
                           meta.runs[i].authorityMetadata = authority

\* two resolutions of one pair both started cold, both fetched and both
\* returned, and the cache holds the discovery document of one and the
\* authority document of the other
C23_Witness ==
    /\ Len(meta.runs) = 2
    /\ \A r \in Resolvers : meta.res[r].pc = "idle"
    /\ meta.runs[1].clientId = meta.runs[2].clientId
    /\ meta.runs[1].tenantId = meta.runs[2].tenantId
    /\ meta.runs[1].cold /\ meta.runs[2].cold
    /\ meta.runs[1].discoveryFetches = 1 /\ meta.runs[2].discoveryFetches = 1
    /\ meta.runs[1].status = "ok" /\ meta.runs[2].status = "ok"
    /\ meta.runs[1].cloudDiscoveryMetadata # meta.runs[2].cloudDiscoveryMetadata
    /\ meta.runs[1].authorityMetadata # meta.runs[2].authorityMetadata
    /\ meta.store[MetaKey(meta.runs[1].clientId, meta.runs[1].tenantId,
                          "discovery-metadata")]
          = meta.runs[1].cloudDiscoveryMetadata
    /\ meta.store[MetaKey(meta.runs[1].clientId, meta.runs[1].tenantId,
                          "authority-metadata")]
          = meta.runs[2].authorityMetadata

\* a session bag holds one of the three PKCE fields
PkceIn(sess) ==
    has(sess, "codeVerifier") \/ has(sess, "state") \/ has(sess, "returnUrl")

\* C24: an exchangeCodeForTokens call that gets to the token endpoint has
\* removed codeVerifier, returnUrl and state from the session when it issues
\* the token request, the session holds none of them while the request is
\* outstanding, and none when the request fails
C24_ClearedBeforeTokenCall ==
    [][\A p \in Procs :
        /\ (io'.at = "ExchangeStart" /\ io'.p = p
              /\ proc'[p].pc = "exch_token") =>
              /\ ~Truthy(io'.cb.error)
              /\ PkceIn(session[io'.s])
              /\ ~PkceIn(session'[io'.s])
        /\ proc'[p].pc = "exch_token" => ~PkceIn(session'[proc'[p].s])
        /\ (io'.at = "ExchangeToken" /\ io'.p = p
              /\ io'.result.status = "error") =>
              ~PkceIn(session'[io'.s])]_vars

\* the token request of a call that had the three fields to clear failed
C24_Witness ==
    /\ io.at = "ExchangeToken"
    /\ io.call = "acquireTokenByCode"
    /\ io.result.status = "error"
    /\ io.result.error.code = "network_error"
    /\ issued[io.s].issued
    /\ ~HasPkce(io.s)

\* C25: every initiateAuthFlow ends in a redirect: to the requested return
\* URL, with the session untouched, when the silent refresh yields tokens,
\* and otherwise to the authorization URL, with codeVerifier, state and
\* returnUrl stored in the session
C25_LoginEndsInRedirect ==
    [][io'.handler = "initiateAuthFlow" =>
        /\ io'.outcome.status = "redirect"
        /\ io'.op = "refreshAccessToken" =>
              /\ io'.result.status = "ok"
              /\ io'.outcome.redirectTo = proc[io'.p].returnUrl
              /\ session' = session
        /\ io'.op = "generateAuthorizationUrl" =>
              /\ io'.outcome.url = io'.result.url
              /\ has(session'[io'.s], "codeVerifier")
              /\ has(session'[io'.s], "state")
              /\ session'[io'.s]["returnUrl"] = proc[io'.p].returnUrl]_vars

\* C26: processUserLogout leaves the session alone while authProvider.logout
\* is running; when logout returns the URL the session is left without
\* homeAccountId and user, destroyed, and when logout fails the session is
\* left as it was, user included
C26_LogoutThenClear ==
    [][\A p \in Procs :
        /\ (proc[p].caller = "processUserLogout" /\ proc[p].op = "logout"
              /\ proc'[p].op = "logout") => session' = session
        /\ (io'.handler = "processUserLogout" /\ io'.p = p) =>
              /\ io'.op = "logout"
              /\ io'.result.status = "ok" =>
                    /\ io'.outcome.status = "redirect"
                    /\ io'.outcome.url = io'.result.url
                    /\ session'[io'.s] = <<>>
              /\ io'.result.status # "ok" =>
                    /\ io'.outcome = io'.result
                    /\ session' = session]_vars

\* authProvider.logout failed under processUserLogout with a user signed in
C26_Witness ==
    /\ io.handler = "processUserLogout"
    /\ io.result.status = "error"
    /\ has(session[io.s], "user")
    /\ session[io.s]["user"].apiToken # NoToken

\* C27: a codeVerifier gets into the session only by a generateAuthorizationUrl
\* that returned, the exchangeCodeForTokens call that submits it to the
\* token endpoint has taken it out of the session, and each call submits
\* once; a call on a session without codeVerifier fails without a token
\* request and without changing homeAccountId
C27_VerifierUsedOnce ==
    [][\A p \in Procs :
        /\ (io'.at = "ExchangeStart" /\ io'.p = p
              /\ proc'[p].pc = "exch_token") =>
              /\ has(session[io'.s], "codeVerifier")
              /\ proc'[p].codeVerifier = session[io'.s]["codeVerifier"]
              /\ ~has(session'[io'.s], "codeVerifier")
        /\ (io'.call = "acquireTokenByCode" /\ io'.p = p) =>
              /\ proc[p].pc = "exch_token"
              /\ proc'[p].pc # "exch_token"
        /\ \A s \in Sessions :
              (/\ has(session'[s], "codeVerifier")
               /\ has(session[s], "codeVerifier") =>
                     session'[s]["codeVerifier"] # session[s]["codeVerifier"]) =>
                  /\ io'.at = "GenStore" /\ io'.s = s
                  /\ io'.result.status = "ok"
        /\ (io'.at = "ExchangeStart" /\ io'.p = p
              /\ ~has(session[io'.s], "codeVerifier")) =>
              /\ io'.result.status = "error"
              /\ proc'[p].pc = "done"
              /\ io'.call = "none"
              /\ codes' = codes
              /\ getKey(session'[io'.s]) = getKey(session[io'.s])]_vars

\* a callback with an outstanding code is replayed on a session that has
\* completed an exchange and holds no codeVerifier
C27_Witness ==
    /\ io.at = "ExchangeStart"
    /\ io.cb.code \in codes
    /\ io.cb.error = Undefined
    /\ io.result.status = "error"
    /\ io.result.error.message = <<"Key not found in session", "codeVerifier">>
    /\ has(session[io.s], "homeAccountId")

\* the PKCE fields of a session bag are all absent, or all present and those
\* of one generateAuthorizationUrl call, given by what it drew and was given
FromOneCall(sess, call) ==
    IF PkceIn(sess)
    THEN /\ has(sess, "codeVerifier") /\ has(sess, "state")
         /\ has(sess, "returnUrl")
         /\ call.issued
         /\ sess["codeVerifier"] = call.codeVerifier
         /\ sess["state"] = call.state
         /\ sess["returnUrl"] = IF call.arg = Undefined THEN "/" ELSE call.arg
         /\ \E k \in Draws : /\ sess["codeVerifier"] = Verifier(k)
                             /\ sess["state"] = Nonce(k)
    ELSE TRUE

\* C28: with generateAuthorizationUrl calls of one session interleaved in any
\* way, the codeVerifier, state and returnUrl of the session are at every
\* moment those of one call; a call writes nothing before getAuthCodeUrl has
\* resolved, and nothing when it rejects
C28_AtomicPkceWrites ==
    [][/\ \A s \in Sessions : FromOneCall(session'[s], issued'[s])
       /\ (io'.at = "GenStart" \/ io'.at = "LoginGen") => session' = session
       /\ (io'.at = "GenStore" /\ io'.result.status = "error") =>
             session' = session
       /\ (io'.at = "GenStore" /\ io'.result.status = "ok") =>
             /\ session'[io'.s]["codeVerifier"] = proc[io'.p].codeVerifier
             /\ session'[io'.s]["state"] = proc[io'.p].state
             /\ session'[io'.s]["returnUrl"] = proc[io'.p].returnUrl]_vars

\* a call stored its three fields over those of another call while a third
\* set of values was waiting for its URL
C28_Witness ==
    /\ io.at = "GenStore" /\ io.result.status = "ok"
    /\ \E q \in Procs \ {io.p} :
          /\ proc[q].pc = "gen_url"
          /\ proc[q].s = io.s
          /\ proc[q].codeVerifier # session[io.s]["codeVerifier"]
          /\ proc[q].returnUrl # session[io.s]["returnUrl"]

\* the session user carries a backend token
BackendAuthorized(s) ==
    /\ has(session[s], "user")
    /\ session[s]["user"].apiToken # NoToken

\* C29: between the operations of the four handlers (initiateAuthFlow,
\* processAuthCallback, ensureUserHasApiAccess, processUserLogout), a
\* session whose user carries an apiToken has a homeAccountId
C29_BackendAuthorizedIsAuthenticated ==
    \A s \in Sessions :
        (BackendAuthorized(s) /\ \A p \in Procs : proc[p].pc = "done") =>
            has(session[s], "homeAccountId")

\* a login ends in a redirect for a session that is backend authorized
C29_Witness ==
    /\ io.handler = "initiateAuthFlow"
    /\ io.outcome.status = "redirect"
    /\ proc[io.p].pc = "done"
    /\ BackendAuthorized(io.s)
    /\ has(session[io.s], "homeAccountId")

====
